---- MODULE Spec2Model ----
(***************************************************************************)
(* Model of the exoplanet habitability API (src/app.py): the Exoplanet     *)
(* table, the loaded FEATURES list, and the handlers add_exoplanet,        *)
(* predict, rank and secure_predict.                                       *)
(*                                                                         *)
(* Numbers.  Scores are integers counting 10^-ScaleDigits, so that         *)
(* Unit stands for 1.0, Unit \div 2 for 0.5 and (85 * Unit) \div 100 for   *)
(* 0.85.  pl_rade, pl_bmasse, st_rad and st_lum are in hundredths (0.8 is  *)
(* 80, 1.3 is 130, 0.5 is 50, 2.0 is 200); pl_eqt, pl_orbper and st_teff   *)
(* are whole numbers.                                                      *)
(***************************************************************************)
EXTENDS Integers, Sequences, FiniteSets, TLC

VARIABLES FEATURES, store, last, calls

vars == <<FEATURES, store, last, calls>>

(* ------------------------------ bounds --------------------------------- *)

ScaleDigits == 5

NumThreads == 2

(* ----------------------------- arithmetic ------------------------------ *)

RECURSIVE Pow10(_)
Pow10(n) == IF n <= 0 THEN 1 ELSE 10 * Pow10(n - 1)

Unit == Pow10(ScaleDigits)

Half == Unit \div 2

Max(a, b) == IF a >= b THEN a ELSE b

Min(a, b) == IF a <= b THEN a ELSE b

\* round(x, nd): nearest multiple of 10^-nd, ties to the even multiple.
Round(x, nd) ==
    IF nd >= ScaleDigits THEN x
    ELSE LET m == Pow10(ScaleDigits - nd)
             q == x \div m
             r == x % m
         IN  IF 2 * r < m THEN q * m
             ELSE IF 2 * r > m THEN (q + 1) * m
             ELSE IF q % 2 = 0 THEN q * m ELSE (q + 1) * m

(* --------------------------- nullable values --------------------------- *)

NULL == <<>>

Some(v) == <<v>>

(* ------------------------------ constants ------------------------------ *)

TopK == 10

AddRequired ==
    <<"name", "pl_rade", "pl_bmasse", "pl_eqt", "pl_orbper", "st_teff", "st_rad">>

HeuristicKeys ==
    <<"pl_rade", "pl_bmasse", "pl_eqt", "pl_orbper", "st_teff", "st_rad">>

\* Feature lists features.pkl may hold: the six columns of the table, the
\* six plus stellar luminosity, and a list without pl_eqt.
Schemas ==
    { <<"pl_rade", "pl_bmasse", "pl_eqt", "pl_orbper", "st_teff", "st_rad">>,
      <<"pl_rade", "pl_bmasse", "pl_eqt", "pl_orbper", "st_teff", "st_rad", "st_lum">>,
      <<"pl_rade", "pl_bmasse", "pl_orbper", "st_teff", "st_rad", "st_lum">> }

(* ------------------------------- inputs -------------------------------- *)

Names == {"a", "b"}

Keys == {"name", "pl_rade", "pl_bmasse", "pl_eqt", "pl_orbper", "st_teff", "st_rad", "st_lum"}

Earth ==
    [pl_rade |-> 100, pl_bmasse |-> 100, pl_eqt |-> 288, pl_orbper |-> 365,
     st_teff |-> 5778, st_rad |-> 100, st_lum |-> 100]

Jupiter ==
    [pl_rade |-> 1120, pl_bmasse |-> 31780, pl_eqt |-> 165, pl_orbper |-> 4333,
     st_teff |-> 5778, st_rad |-> 100, st_lum |-> 100]

Vecs == {Earth, Jupiter}

\* Every coordinate just below, at the lower end, at the upper end and just
\* above the interval the heuristic tests it against.
GridVecs ==
    [pl_rade : {79, 80, 130, 131}, pl_bmasse : {49, 50, 200, 201},
     pl_eqt : {249, 250, 320, 321}, pl_orbper : {299, 300, 430, 431},
     st_teff : {4999, 5000, 6200, 6201}, st_rad : {79, 80, 130, 131},
     st_lum : {100}]

FullPayload(n, v) == [k \in Keys |-> IF k = "name" THEN n ELSE v[k]]

Restrict(f, S) == [k \in S |-> f[k]]

\* The keys a request leaves out: none, any one, or two at once.
DropSets ==
    {{}} \cup {{k} : k \in Keys} \cup {{"pl_eqt", "st_rad"}, {"name", "pl_bmasse"}}

Payloads ==
    {Restrict(FullPayload(n, v), Keys \ D) : n \in Names, v \in Vecs, D \in DropSets}

\* secure_predict never reads the name.
SecurePayloads == {d \in Payloads : "name" \in DOMAIN d => d["name"] = "a"}

GridPayloads == {FullPayload("a", v) : v \in GridVecs \cup Vecs}

\* Values the regression model may return for a request.
RawScores == {(3 * Unit) \div 10, (9 * Unit) \div 10}

GridRawScores ==
    { 0 - (Unit \div 5), 0, Unit \div 50, (3 * Unit) \div 10, Half - 5, Half - 4,
      Half, ((85 * Unit) \div 100) - 1, (85 * Unit) \div 100,
      ((85 * Unit) \div 100) + 1, (9 * Unit) \div 10, Unit, Unit + (Unit \div 5) }

Tokens == {"Bearer SECRET123", "Bearer WRONG"}

Threads == 1..NumThreads

(* ---------------------------- Exoplanet table -------------------------- *)

\* A row of the table; its id is its position in store.
Exoplanet(name, d, score, rank) ==
    [name |-> name,
     pl_rade |-> d["pl_rade"], pl_bmasse |-> d["pl_bmasse"], pl_eqt |-> d["pl_eqt"],
     pl_orbper |-> d["pl_orbper"], st_teff |-> d["st_teff"], st_rad |-> d["st_rad"],
     habitability_score |-> score, rank |-> rank]

UniqueNames(s) == \A i, j \in 1..Len(s) : s[i].name = s[j].name => i = j

\* The database file outlives the process and db.create_all() keeps what it
\* holds: any content that satisfies the column constraints.
InitRows ==
    {Exoplanet(n, v, sc, rk) :
        n \in Names, v \in {Earth},
        sc \in {NULL, Some((3 * Unit) \div 10), Some((9 * Unit) \div 10)},
        rk \in {NULL, Some(1), Some(2)}}

InitStores ==
    {<<>>} \cup {<<r>> : r \in InitRows}
           \cup {s \in {<<r1, r2>> : r1 \in InitRows, r2 \in InitRows} : UniqueNames(s)}

ExistsFirstRowOnly(s, name) == Len(s) > 0 /\ s[1].name = name

\* Exoplanet.query.filter_by(name=...).first()
Exists(s, name) == \E i \in 1..Len(s) : s[i].name = name

(* ------------------------------ validation ----------------------------- *)

LastMissing(req, data) ==
    LET absent == {i \in 1..Len(req) : req[i] \notin DOMAIN data}
    IN  IF absent = {} THEN NULL
        ELSE Some(req[CHOOSE i \in absent : \A j \in absent : i >= j])

\* The first key of req, in list order, that the payload lacks.
FirstMissing(req, data) ==
    LET absent == {i \in 1..Len(req) : req[i] \notin DOMAIN data}
    IN  IF absent = {} THEN NULL
        ELSE Some(req[CHOOSE i \in absent : \A j \in absent : i <= j])

(* ------------------------------ heuristic ------------------------------ *)

IsEarthLikeOpen(d) ==
    /\ 80 < d["pl_rade"] /\ d["pl_rade"] < 130
    /\ 50 < d["pl_bmasse"] /\ d["pl_bmasse"] < 200
    /\ 250 < d["pl_eqt"] /\ d["pl_eqt"] < 320
    /\ 300 < d["pl_orbper"] /\ d["pl_orbper"] < 430
    /\ 5000 < d["st_teff"] /\ d["st_teff"] < 6200
    /\ 80 < d["st_rad"] /\ d["st_rad"] < 130

IsEarthLike(d) ==
    /\ 80 <= d["pl_rade"] /\ d["pl_rade"] <= 130
    /\ 50 <= d["pl_bmasse"] /\ d["pl_bmasse"] <= 200
    /\ 250 <= d["pl_eqt"] /\ d["pl_eqt"] <= 320
    /\ 300 <= d["pl_orbper"] /\ d["pl_orbper"] <= 430
    /\ 5000 <= d["st_teff"] /\ d["st_teff"] <= 6200
    /\ 80 <= d["st_rad"] /\ d["st_rad"] <= 130

Adjust(d, prob) == IF IsEarthLike(d) THEN Max(prob, (85 * Unit) \div 100) ELSE prob

Classify(prob) == IF prob >= Half THEN 1 ELSE 0

AuthorizedAnyBearer(token) == token \in {"Bearer SECRET123", "Bearer WRONG"}

Authorized(token) == token = "Bearer SECRET123"

(* ------------------------ request and response ------------------------- *)

\* What the last request was and what it returned; before is the table as
\* the request found it.
Blank(op, token, data) ==
    [op |-> op, token |-> token, data |-> data, status |-> 0, field |-> "",
     raw |-> NULL, prob |-> NULL, reported |-> NULL, habitability |-> NULL,
     steps |-> <<>>, rows |-> <<>>, before |-> store]

(* ------------------------------- predict ------------------------------- *)

\* POST /predict.  raw is what model.predict returns for the scaled vector.
Predict(data, raw) ==
    LET miss == FirstMissing(FEATURES, data)
        b    == Blank("predict", "", data)
    IN  /\ UNCHANGED <<FEATURES, store, calls>>
        /\ IF miss # NULL
           THEN last' = [b EXCEPT !.status = 400, !.field = miss[1],
                                  !.steps = <<"validate">>]
           ELSE IF FirstMissing(HeuristicKeys, data) # NULL
           THEN \* data["pl_..."] raises KeyError outside the try block
                last' = [b EXCEPT !.status = 500,
                                  !.field = FirstMissing(HeuristicKeys, data)[1],
                                  !.raw = Some(raw),
                                  !.steps = <<"validate", "scale", "infer">>]
           ELSE LET prob == Adjust(data, raw)
                IN  last' = [b EXCEPT !.status = 200,
                                      !.raw = Some(raw),
                                      !.prob = Some(prob),
                                      !.habitability = Some(Classify(prob)),
                                      !.reported = Some(Round(prob, 4)),
                                      !.steps = <<"validate", "scale", "infer",
                                                  "heuristic">>]

(* ---------------------------- secure_predict --------------------------- *)

\* POST /secure_predict with the Authorization header token.
SecurePredict(token, data, raw) ==
    LET miss == FirstMissing(FEATURES, data)
        b    == Blank("secure_predict", token, data)
    IN  /\ UNCHANGED <<FEATURES, store, calls>>
        /\ IF ~Authorized(token)
           THEN last' = [b EXCEPT !.status = 401, !.steps = <<"auth">>]
           ELSE IF miss # NULL
           THEN last' = [b EXCEPT !.status = 400, !.field = miss[1],
                                  !.steps = <<"auth", "validate">>]
           ELSE last' = [b EXCEPT !.status = 200,
                                  !.raw = Some(raw),
                                  !.reported = Some(Round(raw, 6)),
                                  !.steps = <<"auth", "validate", "scale", "infer">>]

(* ----------------------------- add_exoplanet --------------------------- *)

\* POST /add_exoplanet, served with no other request in progress.
AddExoplanet(data) ==
    LET miss == FirstMissing(AddRequired, data)
        b    == Blank("add", "", data)
    IN  /\ UNCHANGED <<FEATURES, calls>>
        /\ IF miss # NULL
           THEN /\ last' = [b EXCEPT !.status = 400, !.field = miss[1]]
                /\ store' = store
           ELSE IF Exists(store, data["name"])
           THEN /\ last' = [b EXCEPT !.status = 409]
                /\ store' = store
           ELSE /\ last' = [b EXCEPT !.status = 200]
                /\ store' = Append(store, Exoplanet(data["name"], data, NULL, NULL))

\* A server thread runs add_exoplanet up to and including the existence
\* query of line 86.
AddCheck(t, data) ==
    LET miss == FirstMissing(AddRequired, data)
    IN  /\ calls[t].pc = "idle"
        /\ UNCHANGED <<FEATURES, store, last>>
        /\ IF miss # NULL
           THEN calls' = [calls EXCEPT ![t] = [pc |-> "done", data |-> data, status |-> 400]]
           ELSE IF Exists(store, data["name"])
           THEN calls' = [calls EXCEPT ![t] = [pc |-> "done", data |-> data, status |-> 409]]
           ELSE calls' = [calls EXCEPT ![t] = [pc |-> "commit", data |-> data, status |-> 0]]

\* The thread adds the row and commits; the UNIQUE constraint on name makes
\* the commit raise IntegrityError, which the handler does not catch.
AddCommit(t) ==
    LET data == calls[t].data
    IN  /\ calls[t].pc = "commit"
        /\ UNCHANGED <<FEATURES, last>>
        /\ IF Exists(store, data["name"])
           THEN /\ calls' = [calls EXCEPT ![t].pc = "done", ![t].status = 500]
                /\ store' = store
           ELSE /\ calls' = [calls EXCEPT ![t].pc = "done", ![t].status = 200]
                /\ store' = Append(store, Exoplanet(data["name"], data, NULL, NULL))

(* --------------------------------- rank -------------------------------- *)

Scored(s) == {i \in 1..Len(s) : s[i].habitability_score # NULL}

\* ORDER BY rank ASC: NULL sorts first.
RankLeq(r1, r2) == r1 = NULL \/ (r2 # NULL /\ r1[1] <= r2[1])

\* The orders the query may return the scored rows in: ascending rank, rows
\* of equal rank in any order.
RankOrders(s) ==
    {o \in [1..Cardinality(Scored(s)) -> Scored(s)] :
        /\ \A i, j \in DOMAIN o : o[i] = o[j] => i = j
        /\ \A i, j \in DOMAIN o : i < j => RankLeq(s[o[i]].rank, s[o[j]].rank)}

RankRows(s, o) ==
    [i \in 1..Min(TopK, Cardinality(Scored(s))) |->
        [rank |-> s[o[i]].rank,
         planet_name |-> s[o[i]].name,
         habitability_score |-> Round(s[o[i]].habitability_score[1], 10)]]

\* GET /rank
Rank ==
    \E o \in RankOrders(store) :
        /\ last' = [Blank("rank", "", <<>>) EXCEPT !.status = 200, !.rows = RankRows(store, o)]
        /\ UNCHANGED <<FEATURES, store, calls>>

(* ---------------------------- specifications --------------------------- *)

IdleCalls == [t \in Threads |-> [pc |-> "idle", data |-> <<>>, status |-> 0]]

Init ==
    /\ FEATURES \in Schemas
    /\ store \in InitStores
    /\ last = Blank("init", "", <<>>)
    /\ calls = IdleCalls

Next ==
    \/ \E data \in Payloads : AddExoplanet(data)
    \/ \E data \in Payloads, raw \in RawScores : Predict(data, raw)
    \/ \E token \in Tokens, data \in SecurePayloads, raw \in RawScores : SecurePredict(token, data, raw)
    \/ Rank

Spec == Init /\ [][Next]_vars

\* Scoring alone, over the end points of the heuristic's intervals and a
\* wide range of model outputs.
InitHeur ==
    /\ FEATURES \in Schemas
    /\ store = <<>>
    /\ \E data \in GridPayloads, raw \in GridRawScores :
          last = [Blank("received", "", data) EXCEPT !.raw = Some(raw)]
    /\ calls = IdleCalls

NextHeur == last.op = "received" /\ Predict(last.data, last.raw[1])

SpecHeur == InitHeur /\ [][NextHeur]_vars

\* add_exoplanet served by concurrent threads.
InitConc ==
    /\ FEATURES \in Schemas
    /\ store = <<>>
    /\ last = Blank("init", "", <<>>)
    /\ calls = IdleCalls

NextConc ==
    \/ \E t \in Threads, data \in Payloads : AddCheck(t, data)
    \/ \E t \in Threads : AddCommit(t)

SpecConc == InitConc /\ [][NextConc]_vars

(* ------------------------------ properties ----------------------------- *)

PredictOk == last.op = "predict" /\ last.status = 200

InClosedIntervals(d) ==
    /\ d["pl_rade"] \in 80..130
    /\ d["pl_bmasse"] \in 50..200
    /\ d["pl_eqt"] \in 250..320
    /\ d["pl_orbper"] \in 300..430
    /\ d["st_teff"] \in 5000..6200
    /\ d["st_rad"] \in 80..130

\* C1: the heuristic is a floor.  After a successful predict the adjusted
\* score is max(raw, 0.85) when all six raw features lie in their closed
\* intervals and the raw score otherwise, so it is never below the raw score;
\* Earth with raw 0.3 gives 0.85 and Jupiter with raw 0.02 gives 0.02.
C1_HeuristicFloor ==
    PredictOk =>
        LET d   == last.data
            raw == last.raw[1]
            adj == last.prob[1]
        IN  /\ InClosedIntervals(d) => adj = (IF raw >= (85 * Unit) \div 100
                                              THEN raw ELSE (85 * Unit) \div 100)
            /\ ~InClosedIntervals(d) => adj = raw
            /\ adj >= raw
            /\ (d = FullPayload("a", Earth) /\ raw = (3 * Unit) \div 10)
                  => adj = (85 * Unit) \div 100
            /\ (d = FullPayload("a", Jupiter) /\ raw = Unit \div 50)
                  => adj = Unit \div 50

\* A body on the end points of two intervals, scored below the floor by the
\* model, is lifted to 0.85.
C1_Witness ==
    /\ PredictOk
    /\ InClosedIntervals(last.data)
    /\ last.data["pl_rade"] = 80
    /\ last.data["st_teff"] = 6200
    /\ last.raw = Some((3 * Unit) \div 10)
    /\ last.prob = Some((85 * Unit) \div 100)

\* C2: after a successful predict, habitability is 1 exactly when the
\* reported probability (rounded to 4 decimal places) is at least 0.5.
C2_ClassificationMatchesReported ==
    PredictOk => (last.habitability[1] = 1 <=> last.reported[1] >= Half)

\* C3: after a successful predict the reported probability lies in [0, 1],
\* whatever the model returned.
C3_ProbabilityInUnitInterval ==
    PredictOk => (0 <= last.reported[1] /\ last.reported[1] <= Unit)

\* C4: after a successful predict, the body whose name the request carries
\* holds the adjusted score just computed, every other body is as it was, and
\* a request whose name matches no body leaves the table as it was.
C4_ScorePersisted ==
    PredictOk =>
        /\ Len(store) = Len(last.before)
        /\ \A i \in 1..Len(store) :
              IF "name" \in DOMAIN last.data /\ last.before[i].name = last.data["name"]
              THEN store[i] = [last.before[i] EXCEPT !.habitability_score = last.prob]
              ELSE store[i] = last.before[i]

\* C5: rank returns min(10, number of scored bodies) entries, all of them
\* scored bodies of the table, in descending order of score, carrying the
\* rank values 1, 2, ..., n in that order.
C5_RankingCorrect ==
    last.op = "rank" =>
        LET rows == last.rows
            n    == Cardinality({i \in 1..Len(store) : store[i].habitability_score # NULL})
        IN  /\ Len(rows) = (IF n <= 10 THEN n ELSE 10)
            /\ \A k \in 1..Len(rows) :
                  \E i \in 1..Len(store) :
                      /\ store[i].name = rows[k].planet_name
                      /\ store[i].habitability_score = Some(rows[k].habitability_score)
            /\ \A j, k \in 1..Len(rows) :
                  j < k => rows[j].habitability_score >= rows[k].habitability_score
            /\ \A k \in 1..Len(rows) : rows[k].rank = Some(k)

AddComplete ==
    /\ last.op = "add"
    /\ \A i \in 1..Len(AddRequired) : AddRequired[i] \in DOMAIN last.data

\* C6: an add with complete features and a name already in the table is a
\* conflict and leaves the table as it was; with a new name it appends exactly
\* one body with that name, the features of the request, no score and no rank.
C6_AddUniqueness ==
    AddComplete =>
        IF \E i \in 1..Len(last.before) : last.before[i].name = last.data["name"]
        THEN last.status = 409 /\ store = last.before
        ELSE /\ last.status = 200
             /\ Len(store) = Len(last.before) + 1
             /\ SubSeq(store, 1, Len(last.before)) = last.before
             /\ LET p == store[Len(store)]
                IN  /\ p.name = last.data["name"]
                    /\ \A i \in 2..Len(AddRequired) :
                          p[AddRequired[i]] = last.data[AddRequired[i]]
                    /\ p.habitability_score = NULL
                    /\ p.rank = NULL
             /\ Cardinality({i \in 1..Len(store) : store[i].name = last.data["name"]}) = 1

\* An add of a name held by the second row of the table is refused.
C6_Witness ==
    /\ AddComplete
    /\ last.status = 409
    /\ Len(last.before) = 2
    /\ last.before[2].name = last.data["name"]
    /\ store = last.before

\* C7: an add or predict whose payload lacks a required key answers 400
\* naming the first absent key in the order of the required list, and writes
\* nothing; for add this holds whether or not the name is already present.
C7_FirstMissingNamed ==
    LET req == IF last.op = "add" THEN AddRequired ELSE FEATURES
    IN  (/\ last.op \in {"add", "predict"}
         /\ \E i \in 1..Len(req) : req[i] \notin DOMAIN last.data)
        => /\ last.status = 400
           /\ store = last.before
           /\ \E i \in 1..Len(req) :
                 /\ req[i] = last.field
                 /\ req[i] \notin DOMAIN last.data
                 /\ \A j \in 1..(i - 1) : req[j] \in DOMAIN last.data

\* An add that lacks pl_eqt and st_rad, for a name already in the table, is
\* answered with the missing pl_eqt and not with a conflict.
C7_Witness ==
    /\ last.op = "add"
    /\ DOMAIN last.data = Keys \ {"pl_eqt", "st_rad"}
    /\ \E i \in 1..Len(last.before) : last.before[i].name = last.data["name"]
    /\ last.status = 400
    /\ last.field = "pl_eqt"

\* C8: a secure predict with a wrong token answers 401 having done nothing
\* but the token check, also when the payload lacks features, and no secure
\* predict changes the table.
C8_SecureGate ==
    last.op = "secure_predict" =>
        /\ store = last.before
        /\ last.token # "Bearer SECRET123" =>
              (last.status = 401 /\ last.steps = <<"auth">> /\ last.raw = NULL)

\* A wrong token with a payload that lacks a schema feature: 401, not 400.
C8_Witness ==
    /\ last.op = "secure_predict"
    /\ last.token = "Bearer WRONG"
    /\ \E i \in 1..Len(FEATURES) : FEATURES[i] \notin DOMAIN last.data
    /\ last.status = 401
    /\ Len(store) > 0

\* C9: for any loaded feature list, predict answers with a result or with a
\* 400 naming a listed feature the payload lacks; a payload that has every
\* listed feature gets a result.
C9_PredictOutcomesClosed ==
    last.op = "predict" =>
        /\ last.status \in {200, 400}
        /\ last.status = 400 =>
              \E i \in 1..Len(FEATURES) :
                  FEATURES[i] = last.field /\ FEATURES[i] \notin DOMAIN last.data
        /\ (\A i \in 1..Len(FEATURES) : FEATURES[i] \in DOMAIN last.data)
              => last.status = 200

\* C10: under any interleaving of concurrent adds the table never holds two
\* bodies of one name, at most one add of a name reports it created, and
\* every finished add ended as created, conflict or missing feature.
C10_AddUnderInterleaving ==
    /\ \A i, j \in 1..Len(store) : store[i].name = store[j].name => i = j
    /\ \A t \in Threads : calls[t].pc = "done" => calls[t].status \in {200, 400, 409}
    /\ \A t, u \in Threads :
          (/\ t # u
           /\ calls[t].pc = "done" /\ calls[t].status = 200
           /\ calls[u].pc = "done" /\ calls[u].status = 200)
          => calls[t].data["name"] # calls[u].data["name"]

====
